---- MODULE Spec2Model ----
(***************************************************************************)
(* Model of qutebrowser.misc.throttle.Throttle: a wrapper that calls a     *)
(* function at once when no call was made recently and otherwise defers    *)
(* the call to a single-shot timer, keeping only the latest arguments.     *)
(*                                                                         *)
(* Time is the integer millisecond clock the code reads with               *)
(* int(time.monotonic() * 1000).  The wrapped function is arbitrary code:  *)
(* while it runs (a frame on `stack`) it may call the throttle again,      *)
(* call cancel() or set_delay(), and time may pass.  The timer is a Qt     *)
(* single-shot timer: its timeout is delivered by the event loop, hence    *)
(* only when no call into the throttle is on the stack.                    *)
(*                                                                         *)
(* The second part models the state machines of                            *)
(* qutebrowser.browser.webkit.webkittab: the caret (WebKitCaret), the      *)
(* click targets of a navigation (WebKitTab._on_navigation_request), the   *)
(* text search (WebKitSearch) and scrolling by key presses                 *)
(* (WebKitScroller).  The widget, the page and the mode manager are the    *)
(* environment: what they answer is an input of the action that asks.      *)
(***************************************************************************)
EXTENDS Integers, Sequences, FiniteSets, TLC

\* ------------------------------------------------------------------ bounds
MaxTime == 5         \* the clock runs freely up to this value
MaxCalls == 3        \* number of __call__ requests in a run
MaxDepth == 2        \* nesting depth of running target functions
MaxCancels == 2      \* number of cancel() calls in a run
MaxSetDelays == 1    \* number of set_delay() calls in a run

\* values of delay_ms given to the constructor and to set_delay
Delays == {-1, 0, 2, 3}
\* argument sets passed to __call__
Args == {"a", "b"}

\* Optional[...] values: None is the empty tuple, a value v is <<v>>
None == <<>>
Some(v) == <<v>>

VARIABLES
    delay_ms,        \* Throttle._delay_ms
    pending_call,    \* Throttle._pending_call: None or Some([args, id])
    last_call_ms,    \* Throttle._last_call_ms: None or Some(ms)
    timer,           \* Throttle._timer: None when inactive, Some(deadline) when running
    now,             \* int(time.monotonic() * 1000)
    stack,           \* running invocations of the target: "imm" from __call__, "def" from _call_pending
    reqs,            \* history: the arguments of the requests received by __call__, in order
    calls,           \* history: the invocations of the target function, in order
    req_ms,          \* history: the time of the latest request, None before the first
    inv_ms,          \* history: the time of the latest invocation of the target, None before the first
    ncancel,         \* history: number of cancel() calls
    ndelay,          \* history: number of set_delay() calls
    dropped,         \* history: ids of requests that were pending with the timer running when cancel() stopped it
    raised,          \* history: the assert of _call_pending has failed (AssertionError in the event loop)
    selection_state, \* WebKitCaret._selection_state
    caret_browsing,  \* QWebSettings.CaretBrowsingEnabled of the widget
    has_selection,   \* the widget's hasSelection()
    acts,            \* history: the page actions triggered by the latest caret operation
    emitted,         \* history: the signals emitted by the latest caret operation
    caret_call,      \* history: the latest caret operation, its arguments and the state it started in
    override_target, \* WebKitTab.data.override_target: None or Some(click target)
    open_target,     \* WebKitTab.data.open_target
    handled,         \* history: None, or the latest navigation request as _on_navigation_request left it
    followed,        \* history: None, or the outcome of the latest follow_selected call
    text,            \* WebKitSearch.text: None or Some(string)
    search_displayed,\* WebKitSearch.search_displayed
    flags,           \* WebKitSearch._flags, as the set of the flags that are set
    finds,           \* history: the findText calls of the latest search operation
    search_flags,    \* history: the flags the latest search() call computed from its arguments
    search_call,     \* history: the latest search operation, its arguments and the state it started in
    key_loop,        \* WebKitScroller._key_press in progress: None or its frame
    bar,             \* the frame's scrollBarValue, per orientation
    presses,         \* history: number of fake key presses the latest _key_press sent
    scroll_call      \* history: the latest scroll operation and its count

\* the state of the throttle
throttle == <<delay_ms, pending_call, last_call_ms, timer, now, stack,
              reqs, req_ms, calls, inv_ms, ncancel, ndelay, dropped, raised>>
\* the state of the caret
caret == <<selection_state, caret_browsing, has_selection, acts, emitted, caret_call>>
\* the click targets of the tab
targets == <<override_target, open_target, handled, followed>>
\* the state of the search
search == <<text, search_displayed, flags, finds, search_flags, search_call>>
\* the state of the scroller
scroller == <<key_loop, bar, presses, scroll_call>>
\* the state of the tab
webkit == <<caret, targets, search, scroller>>

vars == <<throttle, webkit>>

\* ------------------------------------------------------------ the throttle

\* WebKitTab.__init__: the state of the caret, the click targets, the search
\* and the scroller of a new tab showing a page scrolled to its origin
TabInit ==
    /\ selection_state = "none"
    /\ caret_browsing = FALSE
    /\ has_selection = FALSE
    /\ acts = <<>>
    /\ emitted = <<>>
    /\ caret_call = [op |-> "init", args |-> <<>>, from |-> "none", browsing |-> FALSE]
    /\ override_target = None
    /\ open_target = "normal"
    /\ handled = None
    /\ followed = None
    /\ text = None
    /\ search_displayed = FALSE
    /\ flags = {}
    /\ finds = <<>>
    /\ search_flags = {}
    /\ search_call = [op |-> "init", args |-> <<>>, text |-> None, displayed |-> FALSE]
    /\ key_loop = None
    /\ bar = [Vertical |-> 0, Horizontal |-> 0]
    /\ presses = 0
    /\ scroll_call = [op |-> "init", count |-> 0]

\* Throttle.__init__: the state after construction with delay_ms = d
Init ==
    /\ delay_ms \in Delays
    /\ pending_call = None
    /\ last_call_ms = None
    /\ timer = None
    /\ now = 0
    /\ stack = <<>>
    /\ reqs = <<>>
    /\ req_ms = None
    /\ calls = <<>>
    /\ inv_ms = None
    /\ ncancel = 0
    /\ ndelay = 0
    /\ dropped = {}
    /\ raised = FALSE
    /\ TabInit

\* CallNow comparing the clock itself, not the time elapsed since the last call
CallNowAbs(last, cur_time_ms, delay) ==
    \/ last = None
    \/ cur_time_ms > delay

\* CallNow calling right now also when exactly the delay has elapsed
CallNowAtDelay(last, cur_time_ms, delay) ==
    \/ last = None
    \/ cur_time_ms - last[1] >= delay

\* the condition of __call__ under which the function is called right now
CallNow(last, cur_time_ms, delay) ==
    \/ last = None
    \/ cur_time_ms - last[1] > delay

\* Interval with the operands of the subtraction exchanged
IntervalSwapped(delay, cur_time_ms, last) ==
    (cur_time_ms - last) - delay

\* the interval __call__ gives the timer
Interval(delay, cur_time_ms, last) ==
    delay - (cur_time_ms - last)

\* RecordCall leaving the time of the call unrecorded
RecordCallMissing(cur_time_ms) ==
    UNCHANGED last_call_ms

\* __call__ records the time of the call it makes right now
RecordCall(cur_time_ms) ==
    last_call_ms' = Some(cur_time_ms)

\* UpdatePending keeping the arguments stored first
UpdatePendingKeepFirst(new) ==
    pending_call' = IF pending_call = None THEN Some(new) ELSE pending_call

\* __call__ stores the arguments as the pending call, over any stored before
UpdatePending(new) ==
    pending_call' = Some(new)

\* __call__ sets the interval, connects _call_pending and starts the timer
TimerStart(interval) ==
    timer' = Some(now + interval)

\* TimerStop leaving the timer running
TimerStopMissing ==
    UNCHANGED timer

\* cancel() stops the timer
TimerStop ==
    timer' = None

\* the single-shot timer times out no earlier than its interval after start()
TimerDue ==
    /\ timer # None
    /\ now >= timer[1]

\* the entry of an invocation of the target in the history: the _CallArgs
\* (or argument set) p it is given and whether __call__ ("imm") or
\* _call_pending ("def") makes it
Invocation(p, kind) == [id |-> p.id, args |-> p.args, kind |-> kind]

\* the request with number i, as the _CallArgs object __call__ builds for it
Req(i) == [args |-> reqs[i], id |-> i]

\* request i has been passed to the target
Delivered(i) == \E k \in 1..Len(calls) : calls[k].id = i

\* Call starting the timer again when it replaces a pending call
CallRestartOnCoalesce(x) ==
    /\ Len(reqs) < MaxCalls
    /\ LET cur_time_ms == now
           new == [args |-> x, id |-> Len(reqs) + 1]
       IN  /\ reqs' = Append(reqs, x)
           /\ req_ms' = Some(now)
           /\ IF pending_call = None
              THEN IF CallNow(last_call_ms, cur_time_ms, delay_ms)
                   THEN /\ Len(stack) < MaxDepth
                        /\ RecordCall(cur_time_ms)
                        /\ calls' = Append(calls, Invocation(new, "imm"))
                        /\ inv_ms' = Some(now)
                        /\ stack' = Append(stack, "imm")
                        /\ UNCHANGED <<pending_call, timer>>
                   ELSE /\ TimerStart(Interval(delay_ms, cur_time_ms, last_call_ms[1]))
                        /\ UpdatePending(new)
                        /\ UNCHANGED <<last_call_ms, calls, inv_ms, stack>>
              ELSE /\ UpdatePending(new)
                   /\ TimerStart(delay_ms)
                   /\ UNCHANGED <<last_call_ms, calls, inv_ms, stack>>
    /\ UNCHANGED <<delay_ms, now, ncancel, ndelay, dropped, raised>>
    /\ UNCHANGED webkit

\* Call without the return after the call it makes right now: it goes on to
\* start the timer and store the arguments as pending
CallFallThrough(x) ==
    /\ Len(reqs) < MaxCalls
    /\ LET cur_time_ms == now
           new == [args |-> x, id |-> Len(reqs) + 1]
       IN  /\ reqs' = Append(reqs, x)
           /\ req_ms' = Some(now)
           /\ IF pending_call = None
              THEN IF CallNow(last_call_ms, cur_time_ms, delay_ms)
                   THEN /\ Len(stack) < MaxDepth
                        /\ RecordCall(cur_time_ms)
                        /\ calls' = Append(calls, Invocation(new, "imm"))
                        /\ inv_ms' = Some(now)
                        /\ stack' = Append(stack, "imm")
                        /\ TimerStart(Interval(delay_ms, cur_time_ms, cur_time_ms))
                        /\ UpdatePending(new)
                   ELSE /\ TimerStart(Interval(delay_ms, cur_time_ms, last_call_ms[1]))
                        /\ UpdatePending(new)
                        /\ UNCHANGED <<last_call_ms, calls, inv_ms, stack>>
              ELSE /\ UpdatePending(new)
                   /\ UNCHANGED <<last_call_ms, calls, inv_ms, stack, timer>>
    /\ UNCHANGED <<delay_ms, now, ncancel, ndelay, dropped, raised>>
    /\ UNCHANGED webkit

\* Throttle.__call__(x), up to the point where the target starts running
\* (immediate branch) or to its end (deferred and coalescing branches)
Call(x) ==
    /\ Len(reqs) < MaxCalls
    /\ LET cur_time_ms == now
           new == [args |-> x, id |-> Len(reqs) + 1]
       IN  /\ reqs' = Append(reqs, x)
           /\ req_ms' = Some(now)
           /\ IF pending_call = None
              THEN IF CallNow(last_call_ms, cur_time_ms, delay_ms)
                   THEN /\ Len(stack) < MaxDepth
                        /\ RecordCall(cur_time_ms)
                        /\ calls' = Append(calls, Invocation(new, "imm"))
                        /\ inv_ms' = Some(now)
                        /\ stack' = Append(stack, "imm")
                        /\ UNCHANGED <<pending_call, timer>>
                   ELSE /\ TimerStart(Interval(delay_ms, cur_time_ms, last_call_ms[1]))
                        /\ UpdatePending(new)
                        /\ UNCHANGED <<last_call_ms, calls, inv_ms, stack>>
              ELSE /\ UpdatePending(new)
                   /\ UNCHANGED <<last_call_ms, calls, inv_ms, stack, timer>>
    /\ UNCHANGED <<delay_ms, now, ncancel, ndelay, dropped, raised>>
    /\ UNCHANGED webkit

\* the target called by __call__ returns; __call__ returns right after it
CallReturn ==
    /\ stack # <<>>
    /\ stack[Len(stack)] = "imm"
    /\ stack' = SubSeq(stack, 1, Len(stack) - 1)
    /\ UNCHANGED <<delay_ms, pending_call, last_call_ms, timer, now,
                   reqs, req_ms, calls, inv_ms, ncancel, ndelay, dropped, raised>>
    /\ UNCHANGED webkit

\* Throttle._call_pending up to the point where the target starts running:
\* the assert fails when nothing is pending, else the target is called with
\* the pending arguments
CallPending ==
    IF pending_call = None
    THEN /\ raised' = TRUE
         /\ UNCHANGED <<calls, inv_ms, stack>>
    ELSE /\ calls' = Append(calls, Invocation(pending_call[1], "def"))
         /\ inv_ms' = Some(now)
         /\ stack' = <<"def">>
         /\ UNCHANGED raised

\* the single-shot timer times out, stops and runs Throttle._call_pending
TimerFire ==
    /\ stack = <<>>
    /\ TimerDue
    /\ timer' = None
    /\ CallPending
    /\ UNCHANGED <<delay_ms, pending_call, last_call_ms, now,
                   reqs, req_ms, ncancel, ndelay, dropped>>
    /\ UNCHANGED webkit

\* the target called by _call_pending returns; the rest of _call_pending
CallPendingReturn ==
    /\ stack # <<>>
    /\ stack[Len(stack)] = "def"
    /\ pending_call' = None
    /\ last_call_ms' = Some(now)
    /\ stack' = SubSeq(stack, 1, Len(stack) - 1)
    /\ UNCHANGED <<delay_ms, timer, now, reqs, req_ms, calls, inv_ms,
                   ncancel, ndelay, dropped, raised>>
    /\ UNCHANGED webkit

\* SetDelay restarting a running timer with the new delay
SetDelayRearm(d) ==
    /\ ndelay < MaxSetDelays
    /\ delay_ms' = d
    /\ ndelay' = ndelay + 1
    /\ timer' = IF timer # None /\ last_call_ms # None /\ d >= 0
                THEN Some(last_call_ms[1] + d)
                ELSE timer
    /\ UNCHANGED <<pending_call, last_call_ms, now, stack,
                   reqs, req_ms, calls, inv_ms, ncancel, dropped, raised>>
    /\ UNCHANGED webkit

\* Throttle.set_delay(d)
SetDelay(d) ==
    /\ ndelay < MaxSetDelays
    /\ delay_ms' = d
    /\ ndelay' = ndelay + 1
    /\ UNCHANGED <<pending_call, last_call_ms, timer, now, stack,
                   reqs, req_ms, calls, inv_ms, ncancel, dropped, raised>>
    /\ UNCHANGED webkit

\* Cancel forgetting the time of the last call as well
CancelReset ==
    /\ ncancel < MaxCancels
    /\ TimerStop
    /\ last_call_ms' = None
    /\ ncancel' = ncancel + 1
    /\ dropped' = IF timer # None /\ pending_call # None
                  THEN dropped \cup {pending_call[1].id}
                  ELSE dropped
    /\ UNCHANGED <<delay_ms, pending_call, now, stack,
                   reqs, req_ms, calls, inv_ms, ndelay, raised>>
    /\ UNCHANGED webkit

\* Throttle.cancel()
Cancel ==
    /\ ncancel < MaxCancels
    /\ TimerStop
    /\ ncancel' = ncancel + 1
    /\ dropped' = IF timer # None /\ pending_call # None
                  THEN dropped \cup {pending_call[1].id}
                  ELSE dropped
    /\ UNCHANGED <<delay_ms, pending_call, last_call_ms, now, stack,
                   reqs, req_ms, calls, inv_ms, ndelay, raised>>
    /\ UNCHANGED webkit

\* a millisecond passes; the clock runs on past MaxTime only as far as a
\* running timer needs to time out
Tick ==
    /\ \/ now < MaxTime
       \/ timer # None /\ now < timer[1]
    /\ now' = now + 1
    /\ UNCHANGED <<delay_ms, pending_call, last_call_ms, timer, stack,
                   reqs, req_ms, calls, inv_ms, ncancel, ndelay, dropped, raised>>
    /\ UNCHANGED webkit

Next ==
    \/ \E x \in Args : Call(x)
    \/ CallReturn
    \/ TimerFire
    \/ CallPendingReturn
    \/ \E d \in Delays : SetDelay(d)
    \/ Cancel
    \/ Tick

Spec == Init /\ [][Next]_vars

\* Spec with the scheduling of the event loop: time passes, a target that was
\* called returns, and a timer that is due times out
FairSpec ==
    /\ Spec
    /\ WF_vars(Tick)
    /\ WF_vars(CallReturn)
    /\ WF_vars(CallPendingReturn)
    /\ WF_vars(TimerFire)

\* ------------------------------------------- faults of the collaborators

\* a timeout of the single-shot timer is delivered a second time: the timer
\* has timed out before and is not running, and _call_pending runs again
StaleFire ==
    /\ stack = <<>>
    /\ timer = None
    /\ \E k \in 1..Len(calls) : calls[k].kind = "def"
    /\ CallPending
    /\ UNCHANGED <<delay_ms, pending_call, last_call_ms, timer, now,
                   reqs, req_ms, ncancel, ndelay, dropped>>
    /\ UNCHANGED webkit

\* Spec with a timer that may deliver a timeout twice
StaleSpec == Init /\ [][Next \/ StaleFire]_vars

\* the running target raises: the exception leaves the __call__ or the
\* _call_pending that called it, which runs nothing more
TargetRaises ==
    /\ stack # <<>>
    /\ stack' = SubSeq(stack, 1, Len(stack) - 1)
    /\ UNCHANGED <<delay_ms, pending_call, last_call_ms, timer, now,
                   reqs, req_ms, calls, inv_ms, ncancel, ndelay, dropped, raised>>
    /\ UNCHANGED webkit

\* Spec with a target that may raise
RaiseSpec == Init /\ [][Next \/ TargetRaises]_vars

\* ------------------------------------------------------------- the caret

MaxCount == 2        \* the count given to a movement of the caret

\* browsertab.SelectionState
SelectionStates == {"none", "normal", "line"}
\* the usertypes.KeyMode values given to the mode handlers
KeyModes == {"normal", "caret", "insert"}
\* the move_to_* methods of WebKitCaret
Movements == {"next_line", "prev_line", "next_char", "prev_char",
              "end_of_word", "next_word", "prev_word",
              "start_of_line", "end_of_line",
              "start_of_next_block", "start_of_prev_block",
              "end_of_next_block", "end_of_prev_block",
              "start_of_document", "end_of_document"}
\* the move_to_* methods that take no count
Uncounted == {"start_of_line", "end_of_line",
              "start_of_document", "end_of_document"}

\* the sequence s, n times over
RECURSIVE Times(_, _)
Times(s, n) == IF n = 0 THEN <<>> ELSE s \o Times(s, n - 1)

\* the selection_toggled signal with its argument
Toggled(state) == [signal |-> "selection_toggled", arg |-> state]

\* the page actions one round of the loop of move_to_<op> triggers in
\* selection state sel; none when the method returns at once
MoveActs(op, sel, is_windows) ==
    CASE op = "next_line" ->
           IF sel # "none" THEN <<"SelectNextLine">> ELSE <<"MoveToNextLine">>
      [] op = "prev_line" ->
           IF sel # "none" THEN <<"SelectPreviousLine">> ELSE <<"MoveToPreviousLine">>
      [] op = "next_char" ->
           IF sel = "normal" THEN <<"SelectNextChar">>
           ELSE IF sel = "line" THEN <<>> ELSE <<"MoveToNextChar">>
      [] op = "prev_char" ->
           IF sel = "normal" THEN <<"SelectPreviousChar">>
           ELSE IF sel = "line" THEN <<>> ELSE <<"MoveToPreviousChar">>
      [] op = "end_of_word" ->
           IF sel = "normal"
           THEN <<"SelectNextWord">> \o (IF is_windows THEN <<"SelectPreviousChar">> ELSE <<>>)
           ELSE IF sel = "line" THEN <<>>
           ELSE <<"MoveToNextWord">> \o (IF is_windows THEN <<"MoveToPreviousChar">> ELSE <<>>)
      [] op = "next_word" ->
           IF sel = "normal"
           THEN <<"SelectNextWord">> \o (IF ~is_windows THEN <<"SelectNextChar">> ELSE <<>>)
           ELSE IF sel = "line" THEN <<>>
           ELSE <<"MoveToNextWord">> \o (IF ~is_windows THEN <<"MoveToNextChar">> ELSE <<>>)
      [] op = "prev_word" ->
           IF sel = "normal" THEN <<"SelectPreviousWord">>
           ELSE IF sel = "line" THEN <<>> ELSE <<"MoveToPreviousWord">>
      [] op = "start_of_line" ->
           IF sel = "normal" THEN <<"SelectStartOfLine">>
           ELSE IF sel = "line" THEN <<>> ELSE <<"MoveToStartOfLine">>
      [] op = "end_of_line" ->
           IF sel = "normal" THEN <<"SelectEndOfLine">>
           ELSE IF sel = "line" THEN <<>> ELSE <<"MoveToEndOfLine">>
      [] op = "start_of_next_block" ->
           IF sel # "none" THEN <<"SelectNextLine", "SelectStartOfBlock">>
           ELSE <<"MoveToNextLine", "MoveToStartOfBlock">>
      [] op = "start_of_prev_block" ->
           IF sel # "none" THEN <<"SelectPreviousLine", "SelectStartOfBlock">>
           ELSE <<"MoveToPreviousLine", "MoveToStartOfBlock">>
      [] op = "end_of_next_block" ->
           IF sel # "none" THEN <<"SelectNextLine", "SelectEndOfBlock">>
           ELSE <<"MoveToNextLine", "MoveToEndOfBlock">>
      [] op = "end_of_prev_block" ->
           IF sel # "none" THEN <<"SelectPreviousLine", "SelectEndOfBlock">>
           ELSE <<"MoveToPreviousLine", "MoveToEndOfBlock">>
      [] op = "start_of_document" ->
           IF sel # "none" THEN <<"SelectStartOfDocument">> ELSE <<"MoveToStartOfDocument">>
      [] op = "end_of_document" ->
           IF sel # "none" THEN <<"SelectEndOfDocument">> ELSE <<"MoveToEndOfDocument">>

\* WebKitCaret._select_line
SelectLine == <<"SelectStartOfLine", "SelectEndOfLine">>

\* WebKitCaret._select_line_to_end; left_to_right is what
\* _js_selection_left_to_right answers
SelectLineToEnd(left_to_right) ==
    IF left_to_right THEN <<"SelectEndOfLine">> ELSE <<>>

\* WebKitCaret._select_line_to_start
SelectLineToStart(left_to_right) ==
    IF ~left_to_right THEN <<"SelectStartOfLine">> ELSE <<>>

\* the page actions move_to_<op> triggers after its loop in state "line"
MoveTail(op, sel, left_to_right) ==
    IF sel # "line" THEN <<>>
    ELSE CASE op \in {"next_line", "start_of_next_block", "end_of_next_block"} ->
                SelectLineToEnd(left_to_right)
           [] op \in {"prev_line", "start_of_prev_block", "end_of_prev_block"} ->
                SelectLineToStart(left_to_right)
           [] op = "start_of_document" -> SelectLine
           [] OTHER -> <<>>

\* an operation of the caret leaves the rest of the tab and the throttle alone
CaretOnly == UNCHANGED <<throttle, targets, search, scroller>>

\* the caret operation op is called with args
CaretCall(op, args) ==
    caret_call' = [op |-> op, args |-> args,
                   from |-> selection_state, browsing |-> caret_browsing]

\* WebKitCaret.move_to_<op>(count): what the page selects afterwards
\* (selects) is the widget's answer
Move(op, count, is_windows, left_to_right, selects) ==
    /\ CaretCall("move_to", <<op, count>>)
    /\ acts' = Times(MoveActs(op, selection_state, is_windows),
                     IF op \in Uncounted THEN 1 ELSE count)
               \o MoveTail(op, selection_state, left_to_right)
    /\ has_selection' = IF acts' = <<>> THEN has_selection ELSE selects
    /\ emitted' = <<>>
    /\ UNCHANGED <<selection_state, caret_browsing>>
    /\ CaretOnly

\* NextSelectionState leaving the line selection for no selection
NextSelectionStateLineOff(state, line) ==
    IF line THEN "line"
    ELSE IF state = "none" THEN "normal" ELSE "none"

\* the selection state toggle_selection(line) moves to from state
NextSelectionState(state, line) ==
    IF line THEN "line"
    ELSE IF state # "normal" THEN "normal" ELSE "none"

\* WebKitCaret.toggle_selection(line)
ToggleSelection(line, selects) ==
    /\ CaretCall("toggle_selection", <<line>>)
    /\ selection_state' = NextSelectionState(selection_state, line)
    /\ acts' = IF line THEN SelectLine \o SelectLine ELSE <<>>
    /\ has_selection' = IF line THEN selects ELSE has_selection
    /\ emitted' = <<Toggled(selection_state')>>
    /\ UNCHANGED caret_browsing
    /\ CaretOnly

\* WebKitCaret._on_mode_entered(mode); visible is the widget's isVisible()
\* and selects what the page selects after position_caret.js
ModeEntered(mode, visible, selects) ==
    /\ CaretCall("_on_mode_entered", <<mode>>)
    /\ IF mode # "caret"
       THEN /\ acts' = <<>>
            /\ emitted' = <<>>
            /\ UNCHANGED <<selection_state, caret_browsing, has_selection>>
       ELSE /\ selection_state' = IF has_selection THEN "normal" ELSE "none"
            /\ emitted' = <<Toggled(selection_state')>>
            /\ caret_browsing' = TRUE
            /\ acts' = <<>>
            /\ has_selection' = IF visible /\ selection_state' = "none"
                                THEN selects ELSE has_selection
    /\ CaretOnly

\* ModeLeft resetting the selection state only when it removed a selection
ModeLeftKeepState(selects) ==
    /\ CaretOnly
    /\ CaretCall("_on_mode_left", <<>>)
    /\ emitted' = <<>>
    /\ IF caret_browsing
       THEN /\ acts' = IF selection_state # "none" /\ has_selection
                       THEN <<"MoveToNextChar">> ELSE <<>>
            /\ has_selection' = IF acts' = <<>> THEN has_selection ELSE selects
            /\ caret_browsing' = FALSE
            /\ selection_state' = IF acts' = <<>> THEN selection_state ELSE "none"
       ELSE /\ acts' = <<>>
            /\ UNCHANGED <<selection_state, caret_browsing, has_selection>>

\* WebKitCaret._on_mode_left
ModeLeft(selects) ==
    /\ CaretOnly
    /\ CaretCall("_on_mode_left", <<>>)
    /\ emitted' = <<>>
    /\ IF caret_browsing
       THEN /\ acts' = IF selection_state # "none" /\ has_selection
                       THEN <<"MoveToNextChar">> ELSE <<>>
            /\ has_selection' = IF acts' = <<>> THEN has_selection ELSE selects
            /\ caret_browsing' = FALSE
            /\ selection_state' = "none"
       ELSE /\ acts' = <<>>
            /\ UNCHANGED <<selection_state, caret_browsing, has_selection>>

\* the operations of the caret
CaretNext ==
    \/ \E op \in Movements, count \in 1..MaxCount,
          is_windows \in BOOLEAN, left_to_right \in BOOLEAN, selects \in BOOLEAN :
          Move(op, count, is_windows, left_to_right, selects)
    \/ \E line \in BOOLEAN, selects \in BOOLEAN : ToggleSelection(line, selects)
    \/ \E mode \in KeyModes, visible \in BOOLEAN, selects \in BOOLEAN :
          ModeEntered(mode, visible, selects)
    \/ \E selects \in BOOLEAN : ModeLeft(selects)

\* a new tab; its state machines do not use the throttle, which is left as
\* constructed with no delay
TabStart == Init /\ delay_ms = 0

\* a tab whose caret is operated
CaretSpec == TabStart /\ [][CaretNext]_vars

\* ------------------------------------------------------------ the search

\* the texts searched for
Texts == {"a", "b"}

\* a QWebPage.FindFlags value is the set of the QWebPage.FindFlag names set in it
EmptyFlags == {}

\* WebKitSearch._args_to_flags; case_sensitive is what _is_case_sensitive
\* answers for the ignore_case argument
ArgsToFlags(reverse, case_sensitive) ==
    (IF case_sensitive THEN {"FindCaseSensitively"} ELSE {})
    \cup (IF reverse THEN {"FindBackward"} ELSE {})

\* a findText call of the widget
Find(t, f) == [text |-> t, flags |-> f]

\* the findText calls of WebKitSearch.clear
ClearFinds == <<Find(Some(""), EmptyFlags), Find(Some(""), {"HighlightAllOccurrences"})>>

\* an operation of the search leaves the rest of the tab and the throttle alone
SearchOnly == UNCHANGED <<throttle, caret, targets, scroller>>

\* the search operation op is called with args
SearchCall(op, args) ==
    search_call' = [op |-> op, args |-> args,
                    text |-> text, displayed |-> search_displayed]

\* WebKitSearch.clear
Clear ==
    /\ SearchCall("clear", <<>>)
    /\ search_displayed' = FALSE
    /\ finds' = ClearFinds
    /\ UNCHANGED <<text, flags, search_flags>>
    /\ SearchOnly

\* IsDuplicate taking a search for the stored text as a duplicate also when
\* no results are displayed
IsDuplicateOfText(t) ==
    text = Some(t)

\* the condition of search() under which the request is a duplicate
IsDuplicate(t) ==
    text = Some(t) /\ search_displayed

\* WebKitSearch.search(t, ignore_case, reverse)
Search(t, reverse, case_sensitive) ==
    /\ SearchCall("search", <<t, reverse, case_sensitive>>)
    /\ flags' = ArgsToFlags(reverse, case_sensitive)
    /\ search_flags' = flags'
    /\ IF IsDuplicate(t)
       THEN /\ finds' = <<>>
            /\ UNCHANGED <<text, search_displayed>>
       ELSE /\ text' = Some(t)
            /\ search_displayed' = TRUE
            /\ finds' = ClearFinds \o
                        <<Find(Some(t), flags'),
                          Find(Some(t), flags' \cup {"HighlightAllOccurrences"})>>
    /\ SearchOnly

\* the flags next_result and prev_result add for wrap
WrapFlags(wrap) == IF wrap THEN {"FindWrapsAroundDocument"} ELSE {}

\* NextResult storing the flags it searched with
NextResultStoring(wrap) ==
    /\ SearchCall("next_result", <<wrap>>)
    /\ search_displayed' = TRUE
    /\ finds' = <<Find(text, flags \cup WrapFlags(wrap))>>
    /\ flags' = flags \cup WrapFlags(wrap)
    /\ UNCHANGED <<text, search_flags>>
    /\ SearchOnly

\* WebKitSearch.next_result(wrap)
NextResult(wrap) ==
    /\ SearchCall("next_result", <<wrap>>)
    /\ search_displayed' = TRUE
    /\ finds' = <<Find(text, flags \cup WrapFlags(wrap))>>
    /\ UNCHANGED <<text, flags, search_flags>>
    /\ SearchOnly

\* the flags f with FindBackward inverted
InvertBackward(f) ==
    IF "FindBackward" \in f THEN f \ {"FindBackward"} ELSE f \cup {"FindBackward"}

\* WebKitSearch.prev_result(wrap)
PrevResult(wrap) ==
    /\ SearchCall("prev_result", <<wrap>>)
    /\ search_displayed' = TRUE
    /\ finds' = <<Find(text, InvertBackward(flags) \cup WrapFlags(wrap))>>
    /\ UNCHANGED <<text, flags, search_flags>>
    /\ SearchOnly

\* the operations of the search
SearchNext ==
    \/ \E t \in Texts, reverse \in BOOLEAN, case_sensitive \in BOOLEAN :
          Search(t, reverse, case_sensitive)
    \/ Clear
    \/ \E wrap \in BOOLEAN : NextResult(wrap)
    \/ \E wrap \in BOOLEAN : PrevResult(wrap)

\* a tab whose page is searched
SearchSpec == TabStart /\ [][SearchNext]_vars

\* ----------------------------------------------------- the click targets

\* usertypes.ClickTarget values a click opens a link in
ClickTargets == {"normal", "tab", "tab_bg", "window"}
\* NavigationRequest.Type values
NavigationTypes == {"link_clicked", "typed", "other"}
\* what the widget's selectedHtml() holds when follow_selected runs with
\* JavaScript disabled: nothing, text that does not parse, no <a> element,
\* an <a> without href, an <a> with href
Selections == {"empty", "unparsable", "no_anchor", "anchor_no_href", "anchor_href"}

\* an operation on the click targets leaves the rest of the tab and the
\* throttle alone
TargetsOnly == UNCHANGED <<throttle, caret, search, scroller>>

\* WebKitCaret._follow_selected with JavaScript disabled: the WebTabError it
\* raises for the selection, or None
FollowError(selection) ==
    CASE selection = "unparsable" -> Some("Could not parse selected element!")
      [] selection = "anchor_no_href" -> Some("Anchor element without href!")
      [] OTHER -> None

\* WebKitCaret._follow_selected: what it does to follow the selection
FollowEffect(tab, js_enabled, selection) ==
    IF js_enabled THEN "click"
    ELSE CASE selection = "empty" -> "_follow_enter"
           [] selection = "anchor_href" ->
                IF tab THEN "new_tab_requested" ELSE "load_url"
           [] OTHER -> "none"

\* FollowDone emitting only when _follow_selected has returned
FollowDoneOnReturn(err) ==
    IF err = None THEN <<"follow_selected_done">> ELSE <<>>

\* the signals follow_selected emits when _follow_selected has returned or
\* has raised err
FollowDone(err) ==
    <<"follow_selected_done">>

\* WebKitCaret.follow_selected(tab); js_enabled is the JavascriptEnabled
\* attribute of the global settings
FollowSelected(tab, js_enabled, selection) ==
    /\ override_target' = IF js_enabled /\ tab THEN Some("tab") ELSE override_target
    /\ LET err == IF js_enabled THEN None ELSE FollowError(selection)
       IN  followed' = Some([tab |-> tab,
                             effect |-> FollowEffect(tab, js_enabled, selection),
                             error |-> err,
                             emitted |-> FollowDone(err)])
    /\ handled' = None
    /\ UNCHANGED open_target
    /\ TargetsOnly

\* the widget stores the target of a click on the page in data.open_target
ClickWith(target) ==
    /\ open_target' = target
    /\ handled' = None
    /\ followed' = None
    /\ UNCHANGED override_target
    /\ TargetsOnly

\* EffectiveTarget giving open_target the precedence
EffectiveTargetOpenFirst(override, open) ==
    IF open # "normal" \/ override = None THEN open ELSE override[1]

\* the target _on_navigation_request uses for an accepted request
EffectiveTarget(override, open) ==
    IF override # None THEN override[1] ELSE open

\* WebKitTab._on_navigation_request(navigation); accepted is
\* navigation.accepted as the handler of the base class leaves it
NavigationRequest(accepted, type, is_main_frame) ==
    /\ LET target == EffectiveTarget(override_target, open_target)
           elsewhere == accepted /\ type = "link_clicked" /\ target # "normal"
       IN  /\ override_target' = IF accepted THEN None ELSE override_target
           /\ open_target' = IF elsewhere THEN "normal" ELSE open_target
           /\ handled' = Some([accepted_in |-> accepted,
                               type |-> type,
                               override |-> override_target,
                               open |-> open_target,
                               accepted |-> accepted /\ ~elsewhere,
                               loaded |-> IF elsewhere THEN Some(target) ELSE None,
                               settings |-> accepted /\ is_main_frame])
    /\ followed' = None
    /\ TargetsOnly

\* the operations on the click targets
TargetsNext ==
    \/ \E tab \in BOOLEAN, js_enabled \in BOOLEAN, selection \in Selections :
          FollowSelected(tab, js_enabled, selection)
    \/ \E target \in ClickTargets : ClickWith(target)
    \/ \E accepted \in BOOLEAN, type \in NavigationTypes, is_main_frame \in BOOLEAN :
          NavigationRequest(accepted, type, is_main_frame)

\* a tab in which links are clicked and followed
TargetsSpec == TabStart /\ [][TargetsNext]_vars

\* ----------------------------------------------------------- the scroller

MaxScroll == 2           \* scrollBarMaximum of the frame, in both orientations
MaxKeyPresses == 5000    \* the cap of _key_press on the number of key presses

\* the counts given to a scroll operation: none, one, a few, and more than
\* the cap
Counts == {0, 1, MaxCount, MaxKeyPresses + 1}

\* the methods of WebKitScroller that scroll by key presses
ScrollOps == {"up", "down", "left", "right", "page_up", "page_down", "top", "bottom"}

\* the key, the getter of the edge and the orientation each method gives
\* _key_press
KeyPressArgs(op) ==
    CASE op = "up" -> [key |-> "Key_Up", getter |-> Some("scrollBarMinimum"), direction |-> Some("Vertical")]
      [] op = "down" -> [key |-> "Key_Down", getter |-> Some("scrollBarMaximum"), direction |-> Some("Vertical")]
      [] op = "left" -> [key |-> "Key_Left", getter |-> Some("scrollBarMinimum"), direction |-> Some("Horizontal")]
      [] op = "right" -> [key |-> "Key_Right", getter |-> Some("scrollBarMaximum"), direction |-> Some("Horizontal")]
      [] op = "page_up" -> [key |-> "Key_PageUp", getter |-> Some("scrollBarMinimum"), direction |-> Some("Vertical")]
      [] op = "page_down" -> [key |-> "Key_PageDown", getter |-> Some("scrollBarMaximum"), direction |-> Some("Vertical")]
      [] op = "top" -> [key |-> "Key_Home", getter |-> None, direction |-> None]
      [] op = "bottom" -> [key |-> "Key_End", getter |-> None, direction |-> None]

\* the frame's scrollBarMinimum / scrollBarMaximum
Edge(getter) == IF getter = "scrollBarMinimum" THEN 0 ELSE MaxScroll

\* the scroll bar values the page can show after it got the key: it scrolls
\* towards the edge the key points to, by any amount or not at all
AfterKey(key) ==
    LET o == IF key \in {"Key_Left", "Key_Right"} THEN "Horizontal" ELSE "Vertical"
        back == key \in {"Key_Up", "Key_PageUp", "Key_Left", "Key_Home"}
    IN  {[bar EXCEPT ![o] = v] :
            v \in IF back THEN 0..bar[o] ELSE bar[o]..MaxScroll}

\* Rounds without the cap on the number of rounds
RoundsUncapped(count) ==
    count

\* the number of rounds of the loop of _key_press
Rounds(count) ==
    IF count < MaxKeyPresses THEN count ELSE MaxKeyPresses

\* AtEdge never reporting the edge
AtEdgeMissing(getter, direction) ==
    FALSE

\* the condition under which _key_press aborts
AtEdge(getter, direction) ==
    /\ getter # None
    /\ bar[direction[1]] = Edge(getter[1])

\* an operation of the scroller leaves the rest of the tab and the throttle
\* alone
ScrollerOnly == UNCHANGED <<throttle, caret, targets, search>>

\* WebKitScroller.<op>(count) up to the loop of _key_press; top and bottom
\* take no count
KeyPress(op, count) ==
    /\ key_loop = None
    /\ LET n == IF op \in {"top", "bottom"} THEN 1 ELSE count
           a == KeyPressArgs(op)
       IN  /\ scroll_call' = [op |-> op, count |-> n]
           /\ key_loop' = IF Rounds(n) = 0 THEN None
                          ELSE Some([key |-> a.key, getter |-> a.getter,
                                     direction |-> a.direction, left |-> Rounds(n)])
    /\ presses' = 0
    /\ UNCHANGED bar
    /\ ScrollerOnly

\* one round of the loop of _key_press: it returns at the edge, else sends
\* the key to the page, and is over after the last round
KeyPressRound ==
    /\ key_loop # None
    /\ LET l == key_loop[1]
       IN  IF AtEdge(l.getter, l.direction)
           THEN /\ key_loop' = None
                /\ UNCHANGED <<bar, presses>>
           ELSE /\ presses' = presses + 1
                /\ bar' \in AfterKey(l.key)
                /\ key_loop' = IF l.left = 1 THEN None
                               ELSE Some([l EXCEPT !.left = l.left - 1])
    /\ UNCHANGED scroll_call
    /\ ScrollerOnly

\* the operations of the scroller
ScrollerNext ==
    \/ \E op \in ScrollOps, count \in Counts : KeyPress(op, count)
    \/ KeyPressRound

\* a tab that is scrolled by key presses
ScrollerSpec == TabStart /\ [][ScrollerNext]_vars

\* ------------------------------------------------------------- properties

\* the latest request, as the _CallArgs object __call__ built for it
LastReq == Req(Len(reqs))

\* the request received in the step, as the _CallArgs object built for it
NewReq == [args |-> reqs'[Len(reqs')], id |-> Len(reqs')]

\* the step is an invocation of the target by the timer (_call_pending)
DeferredDispatch == calls' # calls /\ stack' = <<"def">>

\* C1: with a constant cooldown C >= 0, an invocation of the target comes
\* at least C milliseconds after the invocation before it.
C1_RateBound ==
    [][(ndelay' = 0 /\ delay_ms >= 0 /\ calls' # calls /\ inv_ms # None)
           => inv_ms'[1] - inv_ms[1] >= delay_ms]_vars

\* three invocations under a constant positive cooldown: immediate,
\* deferred, immediate
C1_Witness ==
    /\ ndelay = 0
    /\ delay_ms > 0
    /\ Len(calls) = 3
    /\ calls[2].kind = "def"
    /\ calls[3].kind = "imm"

\* C2: when one immediate invocation has been followed by requests that all
\* arrived inside its window (no cancel, no set_delay), the timer's dispatch
\* passes the latest request to the target and is the second invocation in
\* all: no superseded request was or is passed.
C2_Coalescing ==
    [][(/\ DeferredDispatch
        /\ ndelay = 0
        /\ ncancel = 0
        /\ Len(calls) = 1
        /\ calls[1].kind = "imm"
        /\ req_ms[1] - inv_ms[1] < delay_ms)
           => /\ Len(reqs) >= 2
              /\ calls' = <<Invocation(Req(1), "imm"), Invocation(LastReq, "def")>>]_vars

\* an immediate call, then two requests with different arguments inside its
\* window, then the deferred call of the second of them
C2_Witness ==
    /\ ndelay = 0
    /\ ncancel = 0
    /\ Len(reqs) = 3
    /\ Len(calls) = 2
    /\ calls[1].kind = "imm"
    /\ calls[2] = Invocation(Req(3), "def")
    /\ inv_ms[1] >= delay_ms
    /\ req_ms[1] < delay_ms
    /\ reqs[2] # reqs[3]

\* C3: the first request to a fresh throttle is passed to the target inside
\* that __call__; no timer runs, nothing is pending and the time of the call
\* is recorded.
C3_LeadingEdge ==
    Len(reqs) = 1
        => /\ calls = <<Invocation(Req(1), "imm")>>
           /\ timer = None
           /\ pending_call = None
           /\ last_call_ms = req_ms
           /\ inv_ms = req_ms

\* the target runs inside the first __call__
C3_Witness ==
    /\ Len(reqs) = 1
    /\ stack = <<"imm">>
    /\ now > 0

\* C4: with a constant cooldown C, at a time t with 0 < t - t0 < C after an
\* immediate invocation at t0, no step invokes the target, and a request
\* arriving then is stored as the pending call.
C4_SuppressionWindow ==
    [][(/\ ndelay' = 0
        /\ calls # <<>>
        /\ calls[Len(calls)].kind = "imm"
        /\ now - inv_ms[1] > 0
        /\ now - inv_ms[1] < delay_ms)
           => /\ calls' = calls
              /\ reqs' # reqs => pending_call' = Some(NewReq)]_vars

\* a request that arrived inside the window of an immediate call is pending
C4_Witness ==
    /\ ndelay = 0
    /\ calls # <<>>
    /\ calls[Len(calls)].kind = "imm"
    /\ req_ms[1] - inv_ms[1] > 0
    /\ req_ms[1] - inv_ms[1] < delay_ms
    /\ pending_call = Some(LastReq)
    /\ stack = <<>>

\* C5: right after cancel() the timer is stopped, nothing is pending and the
\* target was not invoked.
C5_CancelDiscards ==
    [][ncancel' # ncancel
           => /\ timer' = None
              /\ pending_call' = None
              /\ calls' = calls]_vars

\* C6: a request that was pending when cancel() stopped the running timer is
\* never passed to the target.
C6_CancelDropsPending ==
    \A i \in dropped : ~Delivered(i)

\* request 1 was called at once, request 2 was deferred and cancelled, and
\* later a request arrived and the time of the cancelled timer passed
C6_Witness ==
    /\ dropped = {2}
    /\ calls = <<Invocation(Req(1), "imm")>>
    /\ Len(reqs) >= 3
    /\ delay_ms > 0
    /\ now > last_call_ms[1] + delay_ms

\* C7: whenever the cooldown is -1, a request is passed to the target inside
\* that __call__.
C7_DisableSentinel ==
    [][(reqs' # reqs /\ delay_ms = -1)
           => calls' = Append(calls, Invocation(NewReq, "imm"))]_vars

\* C8: set_delay changes neither the running timer, the pending call, the
\* time of the last call nor the invocations; a request that comes when
\* nothing is pending is called now or deferred by the current delay_ms, and
\* the timer it starts is due at the time of the last call plus delay_ms.
C8_SetDelayFrame ==
    [][/\ ndelay' # ndelay
           => UNCHANGED <<timer, pending_call, last_call_ms, calls>>
       /\ (reqs' # reqs /\ pending_call = None /\ last_call_ms # None)
           => /\ calls' # calls <=> now - last_call_ms[1] > delay_ms
              /\ calls' = calls => timer' = Some(last_call_ms[1] + delay_ms)]_vars

\* a timer started under one delay is still running, with its time
\* unchanged, after set_delay has set another delay
C8_Witness ==
    /\ ndelay = 1
    /\ timer # None
    /\ pending_call # None
    /\ delay_ms >= 0
    /\ timer[1] # last_call_ms[1] + delay_ms

\* the timer's dispatch is running the target
InDeferredDispatch == stack # <<>> /\ stack[1] = "def"

\* C9: a request that is stored as the pending call (outside the timer's
\* dispatch, and not stopped by a cancel() since) is eventually passed to the
\* target, unless a later request replaces it or cancel() is called
\* afterwards.
C9_TrailingCallProcessed ==
    \A i \in 1..MaxCalls : \A k \in 0..MaxCancels :
        (/\ pending_call # None
         /\ pending_call[1].id = i
         /\ i \notin dropped
         /\ ~InDeferredDispatch
         /\ ncancel = k)
            ~> \/ Delivered(i)
               \/ ncancel > k
               \/ pending_call # None /\ pending_call[1].id > i

\* C10: when _call_pending returns and the pending call is a request made
\* by the target during this dispatch, the request stays pending and the
\* timer runs for it.
C10_ReentrantNotLost ==
    [][(/\ stack = <<"def">>
        /\ stack' = <<>>
        /\ pending_call # None
        /\ ~Delivered(pending_call[1].id))
           => /\ pending_call' = pending_call
              /\ timer' # None]_vars

\* C11: when _call_pending runs with nothing pending (a timeout delivered
\* twice), the target is not invoked, no field of the throttle changes and
\* no assertion fails.
C11_StaleWakeupTolerated ==
    [][(pending_call = None /\ StaleFire)
           => /\ raised' = raised
              /\ UNCHANGED <<delay_ms, pending_call, last_call_ms, timer, calls>>]_vars

\* C12: once __call__ has invoked the target, and once _call_pending
\* returns from the target, nothing is pending and _last_call_ms is the time
\* at which that invocation was made.
C12_PostInvocationState ==
    [][/\ (calls' # calls /\ stack' # <<>> /\ stack'[Len(stack')] = "imm")
           => /\ last_call_ms' = inv_ms'
              /\ pending_call' = None
       /\ (stack = <<"def">> /\ stack' = <<>>)
           => /\ last_call_ms' = inv_ms
              /\ pending_call' = None]_vars

\* C13: a request that comes while a call is pending replaces the pending
\* arguments and nothing else: the timer keeps its time, which (with a
\* constant cooldown) stays the time of the last call plus the cooldown.
C13_FixedWindowOnCoalesce ==
    [][/\ (reqs' # reqs /\ pending_call # None)
           => /\ pending_call' = Some(NewReq)
              /\ UNCHANGED <<timer, last_call_ms, delay_ms, calls>>
       /\ (ndelay' = 0 /\ timer' # None)
           => timer'[1] = last_call_ms'[1] + delay_ms']_vars

\* cooldown 3: the third request came 2 ms after the immediate call and
\* replaced the pending second one; the timer is still due at 3 ms after it
C13_Witness ==
    /\ ndelay = 0
    /\ ncancel = 0
    /\ delay_ms = 3
    /\ Len(calls) = 1
    /\ Len(reqs) = 3
    /\ pending_call = Some(Req(3))
    /\ req_ms[1] = inv_ms[1] + 2
    /\ timer = Some(inv_ms[1] + 3)
    /\ stack = <<>>

\* C14: cancel() does not invoke the target and leaves _last_call_ms and
\* _delay_ms unchanged; with no timer running it changes no field at all, so
\* a second cancel() in a row changes nothing.
C14_CancelOnlyTrailingSlot ==
    [][ncancel' # ncancel
           => /\ UNCHANGED <<calls, last_call_ms, delay_ms, stack, now>>
              /\ timer' = None
              /\ timer = None
                  => UNCHANGED <<delay_ms, pending_call, last_call_ms, timer>>]_vars

\* cancel() was called twice after an immediate call and a deferred one
C14_Witness ==
    /\ ncancel = 2
    /\ dropped = {2}
    /\ Len(calls) = 1
    /\ timer = None
    /\ last_call_ms = inv_ms

\* C15: once cancel() has stopped the timer of a pending call, a request
\* that comes more than the cooldown after the last call is passed to the
\* target inside that __call__.
C15_UsableAfterCancel ==
    [][(/\ reqs' # reqs
        /\ dropped # {}
        /\ delay_ms >= 0
        /\ last_call_ms # None
        /\ now - last_call_ms[1] > delay_ms)
           => calls' = Append(calls, Invocation(NewReq, "imm"))]_vars

\* C16: the timer is started only when a last call is recorded and at most
\* the cooldown has elapsed since; its interval is the cooldown minus the
\* elapsed time, between 0 and the cooldown, so the cooldown is not
\* negative; a request exactly one cooldown after the last call is deferred
\* with interval 0.
C16_IntervalNeverNegative ==
    [][/\ (timer' # None /\ timer' # timer)
           => /\ last_call_ms # None
              /\ now - last_call_ms[1] <= delay_ms
              /\ timer'[1] - now = delay_ms - (now - last_call_ms[1])
              /\ 0 <= timer'[1] - now
              /\ timer'[1] - now <= delay_ms
              /\ delay_ms >= 0
       /\ (/\ reqs' # reqs
           /\ pending_call = None
           /\ last_call_ms # None
           /\ now - last_call_ms[1] = delay_ms)
           => /\ calls' = calls
              /\ timer' = Some(now)]_vars

\* a request came exactly one cooldown after the last call and is pending
\* with a timer of interval 0
C16_Witness ==
    /\ delay_ms > 0
    /\ pending_call # None
    /\ pending_call = Some(LastReq)
    /\ req_ms[1] - last_call_ms[1] = delay_ms
    /\ timer = req_ms
    /\ stack = <<>>

\* C17: between operations (no call into the throttle running), a call is
\* pending exactly when the timer runs.
C17_PendingTimerCoupling ==
    stack = <<>> => (pending_call # None <=> timer # None)

\* C18: the invocations of the target are requests of __call__, each with
\* the arguments it was made with, in the order of the requests and each at
\* most once; there are never more invocations than requests.
C18_AtMostOnceInOrder ==
    /\ Len(calls) <= Len(reqs)
    /\ \A k \in 1..Len(calls) :
           /\ calls[k].id \in 1..Len(reqs)
           /\ calls[k].args = reqs[calls[k].id]
    /\ \A j, k \in 1..Len(calls) : j < k => calls[j].id < calls[k].id

\* of three requests the first was called at once, the second was
\* superseded and the third was called by the timer
C18_Witness ==
    /\ Len(reqs) = 3
    /\ Len(calls) = 2
    /\ calls[1].id = 1
    /\ calls[2].id = 3
    /\ calls[2].kind = "def"
    /\ reqs[2] # reqs[3]

C20_FailingTargetNoWedge ==
    (stack = <<>> /\ ncancel = 0) => ~(pending_call # None /\ timer = None)

\* ------------------------------------------------ properties of the caret

\* the latest caret operation was op
CaretDid(op) == caret_call.op = op

\* C21: toggle_selection(line=True) moves the selection state to "line";
\* toggle_selection(line=False) moves "normal" to "none" and both "none" and
\* "line" to "normal"; every toggle_selection emits selection_toggled exactly
\* once, with the new state; a movement leaves the selection state as it was
\* and emits nothing.
C21_SelectionStateMachine ==
    /\ CaretDid("toggle_selection") =>
          /\ selection_state =
                (IF caret_call.args[1] THEN "line"
                 ELSE IF caret_call.from = "normal" THEN "none" ELSE "normal")
          /\ emitted = <<Toggled(selection_state)>>
    /\ CaretDid("move_to") =>
          /\ selection_state = caret_call.from
          /\ emitted = <<>>

\* toggle_selection(line=False) has left a line selection, and a movement
\* has triggered page actions in a selection state
C21_Witness ==
    \/ /\ CaretDid("toggle_selection")
       /\ caret_call.from = "line"
       /\ ~caret_call.args[1]
       /\ selection_state = "normal"
    \/ /\ CaretDid("move_to")
       /\ selection_state = "line"
       /\ acts # <<>>

\* C22: when caret browsing is enabled (caret mode was entered), the
\* mode-left handler leaves the selection state "none" and caret browsing
\* disabled, whatever toggle_selection and the movements did before; the
\* mode-entered handler for a mode other than caret changes neither the
\* selection state nor caret browsing, and emits nothing.
C22_ModeLeftResets ==
    /\ (CaretDid("_on_mode_left") /\ caret_call.browsing) =>
          /\ selection_state = "none"
          /\ ~caret_browsing
    /\ (CaretDid("_on_mode_entered") /\ caret_call.args[1] # "caret") =>
          /\ selection_state = caret_call.from
          /\ caret_browsing = caret_call.browsing
          /\ emitted = <<>>
          /\ acts = <<>>

\* caret mode is left with a line selection state and nothing selected on the
\* page
C22_Witness ==
    /\ CaretDid("_on_mode_left")
    /\ caret_call.browsing
    /\ caret_call.from = "line"
    /\ acts = <<>>
    /\ selection_state = "none"

\* ----------------------------------------------- properties of the search

\* the latest search operation was op
SearchDid(op) == search_call.op = op

\* C23: search(t) for the text of the current search while results are
\* displayed makes no findText call (none that searches, none that clears the
\* highlights), keeps text and search_displayed and stores the flags of its
\* arguments; search(t) for the same text when no results are displayed
\* (after clear()) clears and searches the page for t with those flags.
C23_DuplicateSearch ==
    (SearchDid("search") /\ search_call.text = Some(search_call.args[1])) =>
       /\ flags = ArgsToFlags(search_call.args[2], search_call.args[3])
       /\ text = search_call.text
       /\ search_displayed
       /\ IF search_call.displayed
          THEN finds = <<>>
          ELSE finds = ClearFinds \o
                       <<Find(text, flags),
                         Find(text, flags \cup {"HighlightAllOccurrences"})>>

\* the same text is searched again after the results were cleared
C23_WitnessAfterClear ==
    /\ SearchDid("search")
    /\ search_call.text = Some(search_call.args[1])
    /\ ~search_call.displayed
    /\ Len(finds) = 4

\* a search for the text on display has only replaced the stored flags
C23_Witness ==
    /\ SearchDid("search")
    /\ search_call.text = Some(search_call.args[1])
    /\ search_call.displayed
    /\ finds = <<>>
    /\ flags = {"FindBackward"}

\* C24: the stored flags are those the latest search() computed, whatever
\* next_result and prev_result calls came after it, and never hold the wrap
\* flag; next_result searches with the stored flags and prev_result with the
\* stored flags and FindBackward inverted, each plus the wrap flag when
\* wrap is given.
C24_ResultFlagsNotStored ==
    /\ flags = search_flags
    /\ "FindWrapsAroundDocument" \notin flags
    /\ SearchDid("next_result") =>
          finds = <<Find(text, flags \cup WrapFlags(search_call.args[1]))>>
    /\ SearchDid("prev_result") =>
          /\ Len(finds) = 1
          /\ finds[1].text = text
          /\ ("FindBackward" \in finds[1].flags) <=> ("FindBackward" \notin flags)
          /\ finds[1].flags \ {"FindBackward"} =
                (flags \ {"FindBackward"}) \cup WrapFlags(search_call.args[1])

\* prev_result has searched forward with wrap for a backward search
C24_Witness ==
    /\ SearchDid("prev_result")
    /\ search_call.args[1]
    /\ "FindBackward" \in flags
    /\ finds[1].flags = {"FindWrapsAroundDocument"}

\* ---------------------------------------- properties of the click targets

\* C25: every follow_selected call emits follow_selected_done exactly once,
\* when it follows the selection and when it raises WebTabError (selection
\* that does not parse, anchor without href).
C25_FollowSelectedDone ==
    followed # None => followed[1].emitted = <<"follow_selected_done">>

\* follow_selected has raised WebTabError
C25_Witness ==
    /\ followed # None
    /\ followed[1].error = Some("Anchor element without href!")

\* C26: an accepted navigation request uses override_target, when set, in
\* place of open_target and leaves override_target None; when it is a link
\* click and the target used is not "normal", the request is no longer
\* accepted, the URL is loaded in a tab for that target and open_target is
\* "normal" afterwards; a request that is not accepted changes neither
\* override_target nor open_target.
C26_OverrideTargetOneShot ==
    handled # None =>
       LET h == handled[1]
           target == IF h.override # None THEN h.override[1] ELSE h.open
       IN  IF ~h.accepted_in
           THEN /\ override_target = h.override
                /\ open_target = h.open
                /\ h.loaded = None
           ELSE /\ override_target = None
                /\ IF h.type = "link_clicked" /\ target # "normal"
                   THEN /\ ~h.accepted
                        /\ h.loaded = Some(target)
                        /\ open_target = "normal"
                   ELSE /\ h.accepted
                        /\ h.loaded = None
                        /\ open_target = h.open

\* a link click is handled with the override target "tab" set by
\* follow_selected over another open_target
C26_Witness ==
    /\ handled # None
    /\ handled[1].override = Some("tab")
    /\ handled[1].open = "window"
    /\ handled[1].loaded = Some("tab")
    /\ override_target = None

\* --------------------------------------------- properties of the scroller

\* C27: a scroll by count sends at most min(count, 5000) fake key presses,
\* and sends no key press when the scroll bar value of its orientation
\* equals the minimum (up, left, page_up) or the maximum (down, right,
\* page_down).
C27_KeyPressBounded ==
    [][/\ presses' <= scroll_call'.count
       /\ presses' <= 5000
       /\ (presses' = presses + 1 /\ scroll_call.op \in {"up", "left", "page_up"}) =>
             bar[IF scroll_call.op = "left" THEN "Horizontal" ELSE "Vertical"] # 0
       /\ (presses' = presses + 1 /\ scroll_call.op \in {"down", "right", "page_down"}) =>
             bar[IF scroll_call.op = "right" THEN "Horizontal" ELSE "Vertical"] # MaxScroll
      ]_vars

\* a scroll by more than 5000 has sent 5000 key presses and is over
C27_Witness ==
    /\ scroll_call.count > 5000
    /\ presses = 5000
    /\ key_loop = None

\* a scroll down has stopped at the maximum before its count was used up
C27_WitnessEdge ==
    /\ scroll_call.op = "down"
    /\ key_loop = None
    /\ bar["Vertical"] = MaxScroll
    /\ 0 < presses
    /\ presses < scroll_call.count
====
